---- MODULE Spec2Model ----
(***************************************************************************)
(* State-machine model of the Visionary image studio: the App component    *)
(* (prompt form, single in-flight generation, status rotation, gallery)    *)
(* and the Gemini generation client it calls.                              *)
(*                                                                         *)
(* Granularity: one action per event-loop task.  A React event handler and *)
(* the render + effect flush it causes are one step; the continuation of   *)
(* handleGenerate after its await is a step of its own (Resume), which     *)
(* runs as a microtask and therefore before any other task.                *)
(***************************************************************************)
EXTENDS Integers, Sequences, FiniteSets, TLC

(***************************************************************************)
(* Bounds of the exploration.                                              *)
(***************************************************************************)
\* the user stops submitting once the gallery holds this many images
MaxImages == 2

(***************************************************************************)
(* JavaScript values.                                                      *)
(***************************************************************************)
Null == "<null>"
Undefined == "<undefined>"

\* characters String.prototype.trim strips
WhiteSpace == {" ", "\t", "\n"}

RECURSIVE TrimStart(_)
TrimStart(s) ==
    IF s = "" THEN ""
    ELSE IF Head(s) \in WhiteSpace THEN TrimStart(Tail(s))
    ELSE s

RECURSIVE TrimEnd(_)
TrimEnd(s) ==
    IF s = "" THEN ""
    ELSE IF SubSeq(s, Len(s), Len(s)) \in WhiteSpace
         THEN TrimEnd(SubSeq(s, 1, Len(s) - 1))
    ELSE s

\* s.trim()
Trim(s) == TrimEnd(TrimStart(s))

\* `${v}` for a string or undefined
TemplateStr(v) == IF v = Undefined THEN "undefined" ELSE v

(***************************************************************************)
(* Program constants.                                                      *)
(***************************************************************************)
ASPECT_RATIOS == <<"1:1", "16:9", "9:16", "4:3">>

SAMPLE_PROMPTS == <<
    "A majestic phoenix rising from crystal ashes, cinematic lighting, 8k resolution",
    "Cyberpunk street market in Tokyo, neon rain, hyper-realistic, intricate details",
    "An underwater library with glowing jellyfish, ethereal atmosphere, digital art",
    "A tiny dragon sleeping on a pile of gold coins, macro photography, soft bokeh",
    "Surreal landscape where mountains are made of floating silk, pastel colors",
    "Astronaut sitting on a swing attached to a crescent moon, starry background" >>

statusMessages == <<
    "Analyzing your vision...",
    "Sketching the composition...",
    "Applying artistic textures...",
    "Optimizing lighting and shadows...",
    "Finalizing high-quality details...",
    "Almost there..." >>

GenerateFailedMessage == "Failed to generate image. Please try again."
KeyNotSetMessage == "GEMINI_API_KEY is not set"
NoImageMessage == "No image data returned from the model"
RemoteFailureMessage == "network down"

(***************************************************************************)
(* Inputs of the environment, drawn from small sets.                       *)
(***************************************************************************)
\* what the user types into the textarea
TypedPrompts == {"", " \n", " a red fox "}

\* the ratio buttons the user presses
RatioChoices == {ASPECT_RATIOS[1], ASPECT_RATIOS[2]}

\* Math.random() as a fraction k / RandomDen, 0 <= k < RandomDen
RandomDen == 1000
RandomDraws == {999}

\* Math.random().toString(36).substring(7): a short base-36 suffix, which
\* nothing keeps distinct from an earlier one
RandomIds == {"k3x9a", "p0q7z"}

\* the ids the user asks to delete: those of images, and one no image has
DeleteIds == RandomIds \cup {"gone00"}

\* Date.now(), in milliseconds since the page loaded; no code reads a
\* timestamp back, so one reading stands for all
Timestamps == {1000}

\* process.env.GEMINI_API_KEY
ApiKeys == {Undefined, "", "AIza-key"}

TextPart == [inlineData |-> FALSE, data |-> Undefined]
InlinePart(d) == [inlineData |-> TRUE, data |-> d]
ResponseOf(parts) == [candidates |-> <<[parts |-> parts]>>]

\* what the provider does with a call: throw, or answer
RemoteOutcomes ==
    { [throws |-> TRUE, response |-> [candidates |-> <<>>]],
      [throws |-> FALSE, response |-> [candidates |-> <<>>]],
      [throws |-> FALSE, response |-> ResponseOf(<<>>)],
      [throws |-> FALSE, response |-> ResponseOf(<<TextPart>>)],
      [throws |-> FALSE,
       response |-> ResponseOf(<<TextPart, InlinePart("iVBORw0KGgo"), InlinePart("R0lGODlh")>>)] }

(***************************************************************************)
(* State.                                                                  *)
(***************************************************************************)
VARIABLES
    prompt,             \* useState('')
    isGenerating,       \* useState(false)
    generationStatus,   \* useState('')
    images,             \* useState<GeneratedImage[]>([])
    selectedRatio,      \* useState('1:1')
    error,              \* useState<string | null>(null)
    intervals,          \* live setInterval timers, each with its closure's i
    calls,              \* handleGenerate invocations suspended at the await
    apiKey,             \* process.env.GEMINI_API_KEY
    lastEvent           \* history: the handler that ran last, and its argument

vars == <<prompt, isGenerating, generationStatus, images, selectedRatio,
          error, intervals, calls, apiKey, lastEvent>>

(***************************************************************************)
(* Generation client (services/gemini.ts).                                 *)
(***************************************************************************)
\* getAI: TRUE iff it throws
getAIThrows(key) == key = Undefined \/ key = ""

\* response.candidates?.[0]?.content?.parts || []
PartsOf(response) ==
    IF Len(response.candidates) = 0 THEN <<>>
    ELSE response.candidates[1].parts

\* variant: the loop keeps going and returns the last inline part
RECURSIVE ScanParts_Last(_)
ScanParts_Last(parts) ==
    IF parts = <<>> THEN [state |-> "rejected", value |-> NoImageMessage]
    ELSE IF parts[Len(parts)].inlineData
         THEN [state |-> "fulfilled",
               value |-> "data:image/png;base64," \o TemplateStr(parts[Len(parts)].data)]
    ELSE ScanParts_Last(SubSeq(parts, 1, Len(parts) - 1))

\* the for loop over the parts and the throw after it
RECURSIVE ScanParts(_)
ScanParts(parts) ==
    IF parts = <<>> THEN [state |-> "rejected", value |-> NoImageMessage]
    ELSE IF Head(parts).inlineData
         THEN [state |-> "fulfilled",
               value |-> "data:image/png;base64," \o TemplateStr(Head(parts).data)]
    ELSE ScanParts(Tail(parts))

\* generateImage up to its await: the promise it hands back
generateImageStart(key) ==
    IF getAIThrows(key)
    THEN [state |-> "rejected", value |-> KeyNotSetMessage, remoteCalls |-> 0]
    ELSE [state |-> "pending", value |-> Undefined, remoteCalls |-> 1]

\* variant: a failed remote call is issued again
generateImageSettle_Retry(outcome) ==
    IF outcome.throws
    THEN [state |-> "pending", value |-> Undefined, remoteCalls |-> 2]
    ELSE ScanParts(PartsOf(outcome.response))

\* generateImage after its await
generateImageSettle(outcome) ==
    IF outcome.throws
    THEN [state |-> "rejected", value |-> RemoteFailureMessage]
    ELSE ScanParts(PartsOf(outcome.response))

(***************************************************************************)
(* App component.                                                          *)
(***************************************************************************)
\* variant: the cleanup does not clear the interval
EffectIntervals_NoCleanup(wasGenerating, nowGenerating, ivs) ==
    IF wasGenerating = nowGenerating THEN ivs
    ELSE IF nowGenerating THEN Append(ivs, 0)
    ELSE ivs

\* the status-rotation effect, deps [isGenerating]: cleanup of the previous
\* run, then the body
EffectIntervals(wasGenerating, nowGenerating, ivs) ==
    IF wasGenerating = nowGenerating THEN ivs
    ELSE IF nowGenerating THEN <<0>>
    ELSE <<>>

\* variant: the effect starts the timer without showing the first message
EffectStatus_NoReset(wasGenerating, nowGenerating, status) == status

EffectStatus(wasGenerating, nowGenerating, status) ==
    IF wasGenerating # nowGenerating /\ nowGenerating
    THEN statusMessages[1]
    ELSE status

\* variant: the guard forgets the busy flag
Accepts_NoBusyCheck(p, generating) == ~(Trim(p) = "")

\* variant: the guard tests the raw text, not the trimmed text
Accepts_NoTrim(p, generating) == ~(p = "" \/ generating)

\* the guard of handleGenerate: TRUE iff it goes on past the early return
Accepts(p, generating) == ~(Trim(p) = "" \/ generating)

\* variant: the filter predicate inverted (===)
RECURSIVE FilterOut_Inverted(_, _)
FilterOut_Inverted(imgs, id) ==
    IF imgs = <<>> THEN <<>>
    ELSE IF Head(imgs).id = id
         THEN <<Head(imgs)>> \o FilterOut_Inverted(Tail(imgs), id)
    ELSE FilterOut_Inverted(Tail(imgs), id)

\* images.filter(img => img.id !== id)
RECURSIVE FilterOut(_, _)
FilterOut(imgs, id) ==
    IF imgs = <<>> THEN <<>>
    ELSE IF Head(imgs).id # id THEN <<Head(imgs)>> \o FilterOut(Tail(imgs), id)
    ELSE FilterOut(Tail(imgs), id)

\* no continuation is queued: the event loop is free to run a new task
NoMicrotask == \A k \in 1..Len(calls) : calls[k].state = "pending"

Init ==
    /\ prompt = ""
    /\ isGenerating = FALSE
    /\ generationStatus = ""
    /\ images = <<>>
    /\ selectedRatio = "1:1"
    /\ error = Null
    /\ intervals = <<>>
    /\ calls = <<>>
    /\ apiKey \in ApiKeys
    /\ lastEvent = <<"init", "">>

\* textarea onChange
SetPrompt(v) ==
    /\ NoMicrotask
    /\ prompt' = v
    /\ lastEvent' = <<"setPrompt", "">>
    /\ UNCHANGED <<isGenerating, generationStatus, images, selectedRatio,
                   error, intervals, calls, apiKey>>

\* ratio button onClick
SetSelectedRatio(r) ==
    /\ NoMicrotask
    /\ selectedRatio' = r
    /\ lastEvent' = <<"setSelectedRatio", "">>
    /\ UNCHANGED <<prompt, isGenerating, generationStatus, images, error,
                   intervals, calls, apiKey>>

\* arr[i] with a zero-based index: undefined outside the array
ArrayAt(arr, i) == IF i + 1 \in DOMAIN arr THEN arr[i + 1] ELSE Undefined

\* variant: Math.round in place of Math.floor
SampleIndex_Round(k) == (2 * k * Len(SAMPLE_PROMPTS) + RandomDen) \div (2 * RandomDen)

\* SAMPLE_PROMPTS[Math.floor(Math.random() * SAMPLE_PROMPTS.length)]
SampleIndex(k) == (k * Len(SAMPLE_PROMPTS)) \div RandomDen

surpriseMe(k) ==
    /\ NoMicrotask
    /\ prompt' = ArrayAt(SAMPLE_PROMPTS, SampleIndex(k))
    /\ lastEvent' = <<"surpriseMe", "">>
    /\ UNCHANGED <<isGenerating, generationStatus, images, selectedRatio,
                   error, intervals, calls, apiKey>>

\* variant: setError(null) placed before the early return
SubmitError_ClearsFirst(accepted, e) == Null

\* variant: setError(null) left out
SubmitError_Keeps(accepted, e) == e

\* setError(null), reached only past the early return
SubmitError(accepted, e) == IF accepted THEN Null ELSE e

\* form onSubmit, up to the await
handleGenerate ==
    /\ NoMicrotask
    /\ Len(images) < MaxImages
    /\ IF Accepts(prompt, isGenerating)
       THEN /\ isGenerating' = TRUE
            /\ error' = SubmitError(TRUE, error)
            /\ calls' = Append(calls,
                   [prompt |-> prompt, selectedRatio |-> selectedRatio, images |-> images,
                    request |-> [prompt |-> Trim(prompt), aspectRatio |-> selectedRatio]]
                   @@ generateImageStart(apiKey))
            /\ intervals' = EffectIntervals(isGenerating, TRUE, intervals)
            /\ generationStatus' = EffectStatus(isGenerating, TRUE, generationStatus)
            /\ lastEvent' = <<"handleGenerate",
                              IF error = Null THEN "accepted" ELSE "accepted over an error">>
            /\ UNCHANGED <<prompt, images, selectedRatio, apiKey>>
       ELSE /\ error' = SubmitError(FALSE, error)
            /\ lastEvent' = <<"handleGenerate", "returned">>
            /\ UNCHANGED <<prompt, isGenerating, generationStatus, images,
                           selectedRatio, intervals, calls, apiKey>>

\* the provider answers call k, or the transport fails
RemoteResponds(k, outcome) ==
    /\ NoMicrotask
    /\ k \in 1..Len(calls)
    /\ calls' = [calls EXCEPT
                   ![k] = [outcome |-> outcome] @@ generateImageSettle(outcome) @@ @]
    /\ lastEvent' = <<"remote", calls'[k].state>>
    /\ UNCHANGED <<prompt, isGenerating, generationStatus, images,
                   selectedRatio, error, intervals, apiKey>>

\* variant: the literal reads the live input and ratio, not the closure's
NewImage_LiveState(call, id, now) ==
    [id |-> id, url |-> call.value, prompt |-> Trim(prompt),
     timestamp |-> now, aspectRatio |-> selectedRatio]

\* the GeneratedImage literal, built from the closure of the suspended call
NewImage(call, id, now) ==
    [id |-> id, url |-> call.value, prompt |-> Trim(call.prompt),
     timestamp |-> now, aspectRatio |-> call.selectedRatio]

\* variant: setImages([newImage, ...images]) with the closure's gallery
ResumeImages_StaleClosure(call, id, now, imgs) ==
    IF call.state = "fulfilled" THEN <<NewImage(call, id, now)>> \o call.images ELSE imgs

\* variant: the gallery is replaced by the new image
ResumeImages_Replace(call, id, now, imgs) ==
    IF call.state = "fulfilled" THEN <<NewImage(call, id, now)>> ELSE imgs

\* setImages(prev => [newImage, ...prev]), reached only when the await returned
ResumeImages(call, id, now, imgs) ==
    IF call.state = "fulfilled" THEN <<NewImage(call, id, now)>> \o imgs ELSE imgs

\* variant: setPrompt('') moved into the finally block
ResumePrompt_AlwaysClear(call, p) == ""

\* variant: the input is cleared only if it still holds the submitted text
ResumePrompt_KeepEdits(call, p) ==
    IF call.state = "fulfilled" /\ p = call.prompt THEN "" ELSE p

\* setPrompt(''), reached only when the await returned
ResumePrompt(call, p) == IF call.state = "fulfilled" THEN "" ELSE p

\* variant: setError(...) moved into the finally block
ResumeError_Always(call, e) == GenerateFailedMessage

\* catch: setError(...)
ResumeError(call, e) == IF call.state = "fulfilled" THEN e ELSE GenerateFailedMessage

\* variant: setIsGenerating(false) at the end of the try block, no finally
ResumeIsGenerating_NoFinally(call) == call.state # "fulfilled"

\* finally: setIsGenerating(false)
ResumeIsGenerating(call) == FALSE

RemoveAt(s, k) == SubSeq(s, 1, k - 1) \o SubSeq(s, k + 1, Len(s))

\* handleGenerate after the await: try / catch / finally
Resume(k, id, now) ==
    /\ k \in 1..Len(calls)
    /\ calls[k].state # "pending"
    /\ images' = ResumeImages(calls[k], id, now, images)
    /\ prompt' = ResumePrompt(calls[k], prompt)
    /\ error' = ResumeError(calls[k], error)
    /\ isGenerating' = ResumeIsGenerating(calls[k])
    /\ intervals' = EffectIntervals(isGenerating, isGenerating', intervals)
    /\ generationStatus' = EffectStatus(isGenerating, isGenerating', generationStatus)
    /\ calls' = RemoveAt(calls, k)
    /\ lastEvent' = <<"resume", calls[k].state>>
    /\ UNCHANGED <<selectedRatio, apiKey>>

\* trash button onClick
deleteImage(id) ==
    /\ NoMicrotask
    /\ images' = FilterOut(images, id)
    /\ lastEvent' = <<"deleteImage", id>>
    /\ UNCHANGED <<prompt, isGenerating, generationStatus, selectedRatio,
                   error, intervals, calls, apiKey>>

\* the setInterval callback of timer t
Tick(t) ==
    /\ NoMicrotask
    /\ t \in 1..Len(intervals)
    /\ intervals' = [intervals EXCEPT ![t] = (@ + 1) % Len(statusMessages)]
    /\ generationStatus' = statusMessages[intervals'[t] + 1]
    /\ lastEvent' = <<"tick", "">>
    /\ UNCHANGED <<prompt, isGenerating, images, selectedRatio, error,
                   calls, apiKey>>

\* the continuation of some settled call runs
ResumeStep ==
    \E k \in 1..Len(calls), id \in RandomIds, now \in Timestamps : Resume(k, id, now)

Next ==
    \/ \E v \in TypedPrompts : SetPrompt(v)
    \/ \E r \in RatioChoices : SetSelectedRatio(r)
    \/ \E k \in RandomDraws : surpriseMe(k)
    \/ handleGenerate
    \/ \E k \in 1..Len(calls), o \in RemoteOutcomes : RemoteResponds(k, o)
    \/ ResumeStep
    \/ \E id \in DeleteIds : deleteImage(id)
    \/ \E t \in 1..Len(intervals) : Tick(t)

Spec == Init /\ [][Next]_vars

\* the event loop runs a queued continuation
FairSpec == Spec /\ WF_vars(ResumeStep)

(***************************************************************************)
(* Properties.                                                             *)
(***************************************************************************)
InFlight == isGenerating
Idle == ~isGenerating

\* the step just taken ran handler op
Ran(op) == lastEvent'[1] = op

HasId(imgs, id) == \E i \in 1..Len(imgs) : imgs[i].id = id

\* C1: at most one Generation Client call is outstanding in every reachable
\* state, and the busy flag is up exactly while that call is outstanding, so
\* a request never starts before the previous one has resolved.
C1_SingleSlot ==
    /\ Len(calls) <= 1
    /\ InFlight <=> Len(calls) = 1

\* a second submit with a valid prompt was made while a call was outstanding
C1_Witness ==
    /\ lastEvent = <<"handleGenerate", "returned">>
    /\ Len(calls) = 1
    /\ calls[1].state = "pending"
    /\ Trim(prompt) # ""

\* C2: a submit with a non-blank prompt while Idle enters InFlight and starts
\* exactly one client call; a submit while InFlight starts none and leaves
\* the controller state, gallery, error slot and prompt input unchanged.
C2_SubmitIdleOrInFlight ==
    [][Ran("handleGenerate") =>
         /\ (Idle /\ Trim(prompt) # "") =>
               /\ InFlight'
               /\ Len(calls') = Len(calls) + 1
               /\ SubSeq(calls', 1, Len(calls)) = calls
               /\ calls'[Len(calls')].remoteCalls <= 1
         /\ InFlight =>
               UNCHANGED <<isGenerating, calls, images, error, prompt,
                           generationStatus, intervals, selectedRatio>>]_vars

\* a submit was accepted and its call is outstanding
C2_Witness ==
    /\ lastEvent = <<"handleGenerate", "accepted">>
    /\ InFlight
    /\ Len(calls) = 1
    /\ calls[1].remoteCalls = 1

\* C3: a submit with an empty or whitespace-only prompt, in any controller
\* state, changes neither the controller state, the outstanding calls, the
\* error slot, the gallery nor the prompt input.
C3_BlankSubmitInert ==
    [][(Ran("handleGenerate") /\ Trim(prompt) = "") =>
         UNCHANGED <<isGenerating, calls, error, images, prompt,
                     generationStatus, intervals, selectedRatio>>]_vars

\* a whitespace-only prompt was submitted while an error was displayed
C3_Witness ==
    /\ lastEvent = <<"handleGenerate", "returned">>
    /\ prompt = " \n"
    /\ error # Null

\* C4: once the client call of an in-flight request has settled, whatever the
\* outcome, the controller returns to Idle; the continuation itself always
\* leaves the controller Idle.
C4_SettledLeadsToIdle ==
    /\ (\E k \in 1..Len(calls) : calls[k].state # "pending") ~> Idle
    /\ [][Ran("resume") => Idle']_vars

\* a request that failed for want of an image has been resolved
C4_Witness ==
    /\ lastEvent = <<"resume", "rejected">>
    /\ Idle
    /\ calls = <<>>
    /\ error = GenerateFailedMessage
    /\ apiKey = "AIza-key"

\* C5: a successful resolution prepends exactly one entry to the gallery as
\* it stood, and the entry carries the trimmed prompt and the ratio of the
\* request as submitted, whatever the input and the selection are by then.
C5_SuccessPrepends ==
    [][(Ran("resume") /\ Len(calls) = 1 /\ calls[1].state = "fulfilled") =>
         /\ Len(images') = Len(images) + 1
         /\ SubSeq(images', 2, Len(images')) = images
         /\ images'[1].prompt = calls[1].request.prompt
         /\ images'[1].aspectRatio = calls[1].request.aspectRatio
         /\ images'[1].url = calls[1].value]_vars

\* a second image arrived for "a red fox" after the user had moved on to
\* another ratio while the request was in flight
C5_Witness ==
    /\ lastEvent = <<"resume", "fulfilled">>
    /\ Len(images) = 2
    /\ images[1].prompt = "a red fox"
    /\ images[1].aspectRatio = "16:9"
    /\ selectedRatio = "1:1"

\* C6: a failed resolution returns the controller to Idle, leaves the gallery
\* and the prompt input as they were, and puts a non-empty message in the
\* error slot.
C6_FailureKeepsState ==
    [][(Ran("resume") /\ Len(calls) = 1 /\ calls[1].state = "rejected") =>
         /\ Idle'
         /\ images' = images
         /\ prompt' = prompt
         /\ error' # Null
         /\ error' # ""]_vars

\* a request failed with an image in the gallery and text in the input
C6_Witness ==
    /\ lastEvent = <<"resume", "rejected">>
    /\ Len(images) >= 1
    /\ prompt = " a red fox "
    /\ error = GenerateFailedMessage

\* C7: no two gallery entries have the same id.
C7_UniqueIds ==
    \A i, j \in 1..Len(images) : i # j => images[i].id # images[j].id

\* C8: deleting an id the gallery has removes exactly one entry, the others
\* staying in order.
C8_DeleteRemovesOne ==
    [][\A id \in DeleteIds :
         (lastEvent' = <<"deleteImage", id>> /\ HasId(images, id)) =>
            /\ Len(images') = Len(images) - 1
            /\ \E i \in 1..Len(images) :
                  images[i].id = id /\ images' = RemoveAt(images, i)]_vars

\* C9: deleting an id no gallery entry has leaves the gallery identical, in
\* any controller state.
C9_DeleteAbsentNoop ==
    [][\A id \in DeleteIds :
         (lastEvent' = <<"deleteImage", id>> /\ ~HasId(images, id)) =>
            images' = images]_vars

\* an id that was never issued was deleted from a non-empty gallery while a
\* request was in flight
C9_Witness ==
    /\ lastEvent = <<"deleteImage", "gone00">>
    /\ images # <<>>
    /\ InFlight

\* C10: the gallery grows only by a successful resolution; a step that is not
\* a delete keeps every entry, unchanged and in order, at the tail of the
\* gallery; a delete keeps every entry whose id is not the deleted one.
C10_EntriesStay ==
    [][/\ Len(images') > Len(images) =>
             /\ Ran("resume")
             /\ \E k \in 1..Len(calls) : calls[k].state = "fulfilled"
       /\ ~Ran("deleteImage") =>
             /\ Len(images') >= Len(images)
             /\ SubSeq(images', Len(images') - Len(images) + 1, Len(images')) = images
       /\ Ran("deleteImage") =>
             \A i \in 1..Len(images) :
                images[i].id # lastEvent'[2] =>
                   \E j \in 1..Len(images') : images'[j] = images[i]]_vars

\* an entry is still in the gallery, behind the entry of a later request
C10_Witness ==
    /\ lastEvent = <<"resume", "fulfilled">>
    /\ Len(images) = 2
    /\ images[2].id = "p0q7z"
    /\ images[1].id = "k3x9a"
    /\ images[2].prompt = SAMPLE_PROMPTS[6]

\* C11: after a successful resolution the prompt input is empty and the error
\* slot is empty, whatever the input held while the request was in flight.
C11_SuccessClearsInput ==
    [][(Ran("resume") /\ Len(calls) = 1 /\ calls[1].state = "fulfilled") =>
         /\ prompt' = ""
         /\ error' = Null]_vars

\* the first image has just arrived and the form is blank again
C11_Witness ==
    /\ lastEvent = <<"resume", "fulfilled">>
    /\ Len(images) = 1
    /\ images[1].prompt = "a red fox"
    /\ prompt = ""
    /\ error = Null

SampleSet == {SAMPLE_PROMPTS[i] : i \in DOMAIN SAMPLE_PROMPTS}

\* C12: surpriseMe, in any controller state, puts a member of the sample set
\* in the prompt input and leaves the gallery, the error slot, the busy flag
\* and the outstanding call as they were.
C12_SurpriseOnlySetsPrompt ==
    [][Ran("surpriseMe") =>
         /\ prompt' \in SampleSet
         /\ UNCHANGED <<images, error, isGenerating, calls>>]_vars

\* Surprise Me was pressed while a request was in flight over a non-empty
\* gallery
C12_Witness ==
    /\ lastEvent = <<"surpriseMe", "">>
    /\ InFlight
    /\ images # <<>>
    /\ prompt \in SampleSet

\* position of a status message in the fixed list
StatusIndex(s) == CHOOSE i \in DOMAIN statusMessages : statusMessages[i] = s

CredentialAbsent == apiKey = Undefined \/ apiKey = ""

\* C14: without a credential a generate call fails with no remote call; with
\* one it issues exactly one remote call, and the provider's answer settles
\* the call without another remote call being issued.
C14_OneRemoteCall ==
    /\ [](\A k \in 1..Len(calls) :
             IF CredentialAbsent
             THEN calls[k].remoteCalls = 0 /\ calls[k].state = "rejected"
             ELSE calls[k].remoteCalls = 1)
    /\ [][Ran("remote") =>
             \A k \in 1..Len(calls) :
                /\ calls'[k].state # "pending"
                /\ calls'[k].remoteCalls = calls[k].remoteCalls]_vars

\* the remote call failed and the call is settled after one remote call
C14_Witness ==
    /\ lastEvent = <<"remote", "rejected">>
    /\ Len(calls) = 1
    /\ calls[1].value = RemoteFailureMessage
    /\ calls[1].remoteCalls = 1

\* indexes of the parts that carry inline data
InlineIndexes(parts) == {i \in 1..Len(parts) : parts[i].inlineData}

C17_DeleteInFlightKept ==
    [][/\ Ran("deleteImage") => UNCHANGED <<isGenerating, calls, intervals>>
       /\ (Ran("resume") /\ Len(calls) = 1 /\ calls[1].state = "fulfilled") =>
             /\ Tail(images') = images
             /\ \A id \in DeleteIds :
                   (HasId(calls[1].images, id) /\ ~HasId(images, id)) =>
                      ~HasId(Tail(images'), id)]_vars

\* an image that was in the gallery when the request was submitted has been
\* deleted while the request is still in flight
C17_Witness ==
    /\ lastEvent[1] = "deleteImage"
    /\ InFlight
    /\ Len(calls) = 1
    /\ HasId(calls[1].images, lastEvent[2])
    /\ ~HasId(images, lastEvent[2])

\* C18: the error slot holds nothing or the one failure message; it is set
\* exactly by a failed resolution and cleared exactly by an accepted
\* submission, and no other step changes it.
C18_ErrorSlotChanges ==
    /\ [](error \in {Null, GenerateFailedMessage})
    /\ [][/\ error' # error =>
                \/ /\ Ran("resume")
                   /\ \E k \in 1..Len(calls) : calls[k].state = "rejected"
                   /\ error' = GenerateFailedMessage
                \/ /\ Ran("handleGenerate")
                   /\ Idle /\ InFlight'
                   /\ error' = Null
          /\ (Ran("resume") /\ Len(calls) = 1 /\ calls[1].state = "rejected") =>
                error' = GenerateFailedMessage
          /\ (Idle /\ InFlight') => error' = Null]_vars

\* the message of a failed request is still shown after Surprise Me
C18_Witness ==
    /\ lastEvent = <<"surpriseMe", "">>
    /\ Idle
    /\ error = GenerateFailedMessage
    /\ images # <<>>

\* C19: the continuation of an accepted submission consumes its call and has
\* exactly one outcome: one entry prepended with the error slot empty, or
\* the error slot set with the gallery as it was.  The gallery grows only
\* that way, by one, and a call starts only by an accepted submission, so
\* the entries ever added never outnumber the accepted submissions.
C19_OneOutcome ==
    [][/\ (Ran("resume") /\ Len(calls) = 1) =>
             /\ calls' = <<>>
             /\ \/ /\ Len(images') = Len(images) + 1
                   /\ Tail(images') = images
                   /\ error' = Null
                \/ /\ images' = images
                   /\ error' # Null
       /\ Len(images') > Len(images) =>
             /\ Ran("resume")
             /\ Len(images') = Len(images) + 1
             /\ Len(calls') = Len(calls) - 1
       /\ Len(calls') > Len(calls) =>
             /\ Ran("handleGenerate")
             /\ Len(calls') = Len(calls) + 1
       /\ Len(calls') < Len(calls) => Ran("resume")]_vars

\* a submission without a credential ended with the error set and no image
C19_Witness ==
    /\ lastEvent = <<"resume", "rejected">>
    /\ CredentialAbsent
    /\ images = <<>>
    /\ calls = <<>>
    /\ error = GenerateFailedMessage

\* C20: while a request is in flight the error slot is empty.
C20_NoErrorInFlight == InFlight => error = Null

\* a submission was accepted while the message of a failed request was shown
C20_Witness ==
    /\ lastEvent = <<"handleGenerate", "accepted over an error">>
    /\ InFlight
    /\ error = Null

====
